---- MODULE Spec2Model ----
(***************************************************************************)
(* Digest synthesis and insight gating of davisbuilds/feed                 *)
(* (src/src/analyze/digest_builder.py).                                    *)
(*                                                                         *)
(* A Python str is a sequence of one-character strings, so that strip,     *)
(* rstrip, lower, split, join and re.findall are computed on characters.   *)
(* An optional value (X | None) is a sequence of length 0 or 1.            *)
(***************************************************************************)
EXTENDS Naturals, Integers, Sequences, FiniteSets, TLC

VARIABLES
    articles,                 \* build_digest's argument: list[Article]
    insights_mode,            \* self.insights_mode
    insight_min_confidence,   \* self.insight_min_confidence
    max_insights_per_digest,  \* self.max_insights_per_digest
    pc,                       \* position inside build_digest
    by_category,              \* sorted(by_category.items()): <<name, articles>> pairs
    category_digests,         \* list[CategoryDigest] built so far
    ret,                      \* the value build_digest / generate returned (a tuple of its components)
    raised,                   \* an exception that escaped build_digest / generate (optional)
    llm_calls,                \* the client's record of the generate() calls it served
    gate,                     \* the gate's / duplicate test's last application (harness)
    max_retries,              \* RetryClient: self.max_retries
    attempt,                  \* RetryClient.generate: the loop variable
    inner_calls,              \* RetryClient: the outcomes of the calls of self.inner.generate
    slept                     \* RetryClient.generate: the delays passed to time.sleep

vars == <<articles, insights_mode, insight_min_confidence, max_insights_per_digest,
          pc, by_category, category_digests, ret, raised, llm_calls, gate,
          max_retries, attempt, inner_calls, slept>>

\* The variables of RetryClient.generate
retry_vars == <<max_retries, attempt, inner_calls, slept>>

None == <<>>
Some(x) == <<x>>

(***************************************************************************)
(* Characters and str methods                                              *)
(***************************************************************************)
Whitespace == {" ", "\t", "\n"}

Uppercase == <<"A","B","C","D","E","F","G","H","I","J","K","L","M",
               "N","O","P","Q","R","S","T","U","V","W","X","Y","Z">>

Lowercase == <<"a","b","c","d","e","f","g","h","i","j","k","l","m",
               "n","o","p","q","r","s","t","u","v","w","x","y","z">>

Digits == <<"0","1","2","3","4","5","6","7","8","9">>

\* The characters in increasing code point order (Python compares str by code point).
CodePoints == <<"\t", "\n", " ", "!", ",", "-", ".", "/">> \o Digits \o <<":", "?">>
              \o Uppercase \o Lowercase

Range(f) == {f[i] : i \in DOMAIN f}

ord(c) == CHOOSE i \in DOMAIN CodePoints : CodePoints[i] = c

\* str.lower() on one character
lower_char(c) ==
    IF c \in Range(Uppercase)
    THEN Lowercase[CHOOSE i \in DOMAIN Uppercase : Uppercase[i] = c]
    ELSE c

\* str.lower()
lower(s) == [i \in DOMAIN s |-> lower_char(s[i])]

RECURSIVE lstrip(_, _)
\* str.lstrip(chars)
lstrip(s, chars) ==
    IF s # <<>> /\ Head(s) \in chars THEN lstrip(Tail(s), chars) ELSE s

RECURSIVE rstrip(_, _)
\* str.rstrip(chars)
rstrip(s, chars) ==
    IF s # <<>> /\ s[Len(s)] \in chars
    THEN rstrip(SubSeq(s, 1, Len(s) - 1), chars)
    ELSE s

\* str.strip()
strip(s) == rstrip(lstrip(s, Whitespace), Whitespace)

RECURSIVE runs(_, _, _, _)
\* The maximal runs of characters of `keep` in s, in order (cur: the run being read).
runs(s, keep, cur, acc) ==
    IF s = <<>>
    THEN IF cur = <<>> THEN acc ELSE Append(acc, cur)
    ELSE IF Head(s) \in keep
         THEN runs(Tail(s), keep, Append(cur, Head(s)), acc)
         ELSE runs(Tail(s), keep, <<>>, IF cur = <<>> THEN acc ELSE Append(acc, cur))

\* str.split() with no argument: the maximal runs of non-whitespace characters
split(s) == runs(s, Range(s) \ Whitespace, <<>>, <<>>)

RECURSIVE join(_, _)
\* sep.join(words)
join(sep, words) ==
    IF words = <<>> THEN <<>>
    ELSE IF Len(words) = 1 THEN words[1]
    ELSE words[1] \o sep \o join(sep, Tail(words))

\* re.findall(r"[a-z0-9]+", s), as the set the code makes of it
findall_alnum(s) == Range(runs(s, Range(Lowercase) \cup Range(Digits), <<>>, <<>>))

RECURSIVE str_less(_, _)
\* s < t on Python str: lexicographic by code point
str_less(s, t) ==
    IF t = <<>> THEN FALSE
    ELSE IF s = <<>> THEN TRUE
    ELSE IF Head(s) = Head(t) THEN str_less(Tail(s), Tail(t))
    ELSE ord(Head(s)) < ord(Head(t))

(***************************************************************************)
(* DigestBuilder's static helpers                                          *)
(***************************************************************************)
\* DigestBuilder._normalize_url
_normalize_url(url) == rstrip(strip(url), {"/"})

\* DigestBuilder._normalize_text
_normalize_text(text) == join(<<" ">>, split(lower(text)))

RECURSIVE filter_loop(_, _, _, _)
\* The loop of _filter_urls (filtered: the list built, seen: the set)
filter_loop(urls, allowed_urls, filtered, seen) ==
    IF urls = <<>> THEN filtered
    ELSE LET normalized == _normalize_url(Head(urls)) IN
         IF normalized \in allowed_urls /\ normalized \notin seen
         THEN filter_loop(Tail(urls), allowed_urls, Append(filtered, normalized),
                          seen \cup {normalized})
         ELSE filter_loop(Tail(urls), allowed_urls, filtered, seen)
RECURSIVE filter_loop_unchecked(_, _, _)
filter_loop_unchecked(urls, filtered, seen) ==
    IF urls = <<>> THEN filtered
    ELSE LET normalized == _normalize_url(Head(urls)) IN
         IF normalized \notin seen
         THEN filter_loop_unchecked(Tail(urls), Append(filtered, normalized),
                                    seen \cup {normalized})
         ELSE filter_loop_unchecked(Tail(urls), filtered, seen)

\* Mutant: the membership test `normalized in allowed_urls` left out
_filter_urls_unchecked(urls, allowed_urls) == filter_loop_unchecked(urls, <<>>, {})

\* Mutant: the `normalized not in seen` test left out
_filter_urls_repeating(urls, allowed_urls) ==
    SelectSeq([i \in DOMAIN urls |-> _normalize_url(urls[i])],
              LAMBDA u : u \in allowed_urls)

RECURSIVE filter_loop_seen_raw(_, _, _, _)
filter_loop_seen_raw(urls, allowed_urls, filtered, seen) ==
    IF urls = <<>> THEN filtered
    ELSE LET normalized == _normalize_url(Head(urls)) IN
         IF normalized \in allowed_urls /\ Head(urls) \notin seen
         THEN filter_loop_seen_raw(Tail(urls), allowed_urls, Append(filtered, normalized),
                                   seen \cup {Head(urls)})
         ELSE filter_loop_seen_raw(Tail(urls), allowed_urls, filtered, seen)

\* Mutant: `url not in seen` and seen.add(url), the URL as given, in place of
\* the normalized one
_filter_urls_seen_raw(urls, allowed_urls) ==
    filter_loop_seen_raw(urls, allowed_urls, <<>>, {})

\* DigestBuilder._filter_urls
_filter_urls(urls, allowed_urls) == filter_loop(urls, allowed_urls, <<>>, {})

Min(a, b) == IF a <= b THEN a ELSE b
\* Mutant: overlap > 0.8 in place of overlap >= 0.8
overlap_above_threshold(candidate_tokens, existing_tokens) ==
    5 * Cardinality(candidate_tokens \cap existing_tokens)
        > 4 * Min(Cardinality(candidate_tokens), Cardinality(existing_tokens))

\* overlap >= 0.8, overlap = len(a & b) / min(len(a), len(b)); the quotient of two
\* small integers is compared with 0.8 exactly: 5 * |a & b| >= 4 * min
overlap_at_least_threshold(candidate_tokens, existing_tokens) ==
    5 * Cardinality(candidate_tokens \cap existing_tokens)
        >= 4 * Min(Cardinality(candidate_tokens), Cardinality(existing_tokens))

\* One iteration of _is_near_duplicate's loop: does `text` make the candidate a duplicate
duplicate_of(normalized, candidate_tokens, text) ==
    LET existing_normalized == _normalize_text(text)
        existing_tokens == findall_alnum(existing_normalized)
    IN  IF existing_normalized = <<>> THEN FALSE
        ELSE IF normalized = existing_normalized THEN TRUE
        ELSE IF existing_tokens = {} THEN FALSE
        ELSE overlap_at_least_threshold(candidate_tokens, existing_tokens)

\* DigestBuilder._is_near_duplicate
_is_near_duplicate(candidate, existing_texts) ==
    LET normalized == _normalize_text(candidate)
        candidate_tokens == findall_alnum(normalized)
    IN  IF normalized = <<>> THEN TRUE
        ELSE IF candidate_tokens = {} THEN TRUE
        ELSE \E i \in DOMAIN existing_texts :
                duplicate_of(normalized, candidate_tokens, existing_texts[i])

(***************************************************************************)
(* The insight gate                                                        *)
(***************************************************************************)
\* NonObviousInsight(...) as _approve_insight constructs it (lines 258-263)
NonObviousInsight(insight_text, why_text, confidence, supporting_urls) ==
    [insight |-> insight_text, why_unintuitive |-> why_text,
     confidence |-> confidence, supporting_urls |-> supporting_urls]
\* Mutant: the mode `off` test left out
gate_closed_ignoring_off(insight) == insight = None

\* The condition of the first early return of _approve_insight
gate_closed(insight) == insights_mode = "off" \/ insight = None
\* Mutant: <= in place of <
below_min_confidence_inclusive(confidence) ==
    insights_mode = "auto" /\ confidence <= insight_min_confidence
\* Mutant: the mode test of the confidence rule left out
below_min_confidence_any_mode(confidence) == confidence < insight_min_confidence

\* The condition of the second early return: the confidence rule of mode auto
below_min_confidence(confidence) ==
    insights_mode = "auto" /\ confidence < insight_min_confidence

\* Mutant: `if not insight_text:` in place of `if not insight_text or not why_text:`
_approve_insight_unchecked_why(insight, allowed_urls, existing_texts) ==
    IF gate_closed(insight) THEN None
    ELSE LET candidate == insight[1]
             insight_text == strip(candidate.insight)
             why_text == strip(candidate.why_unintuitive)
             supporting_urls == _filter_urls(candidate.supporting_urls, allowed_urls)
         IN  IF below_min_confidence(candidate.confidence) THEN None
             ELSE IF insight_text = <<>> THEN None
             ELSE IF supporting_urls = <<>> THEN None
             ELSE IF _is_near_duplicate(insight_text, existing_texts) THEN None
             ELSE Some(NonObviousInsight(insight_text, why_text,
                                         candidate.confidence, supporting_urls))

\* DigestBuilder._approve_insight: None, or Some(NonObviousInsight)
_approve_insight(insight, allowed_urls, existing_texts) ==
    IF gate_closed(insight) THEN None
    ELSE LET candidate == insight[1]
             insight_text == strip(candidate.insight)
             why_text == strip(candidate.why_unintuitive)
             supporting_urls == _filter_urls(candidate.supporting_urls, allowed_urls)
         IN  IF below_min_confidence(candidate.confidence) THEN None
             ELSE IF insight_text = <<>> \/ why_text = <<>> THEN None
             ELSE IF supporting_urls = <<>> THEN None
             ELSE IF _is_near_duplicate(insight_text, existing_texts) THEN None
             ELSE Some(NonObviousInsight(insight_text, why_text,
                                         candidate.confidence, supporting_urls))

\* The test that ends the loop of _approve_insights after an append
cap_reached(approved, max_count) == Len(approved) >= max_count

RECURSIVE approve_loop_without_context(_, _, _, _, _)
\* Mutant: existing_texts=existing_texts in place of existing_texts + current_context
approve_loop_without_context(insights, allowed_urls, existing_texts, max_count, approved) ==
    IF insights = <<>> THEN approved
    ELSE LET filtered == _approve_insight(Some(Head(insights)), allowed_urls,
                                          existing_texts)
         IN  IF filtered = None
             THEN approve_loop_without_context(Tail(insights), allowed_urls,
                                               existing_texts, max_count, approved)
             ELSE IF cap_reached(Append(approved, filtered[1]), max_count)
                  THEN Append(approved, filtered[1])
                  ELSE approve_loop_without_context(Tail(insights), allowed_urls,
                            existing_texts, max_count, Append(approved, filtered[1]))

RECURSIVE approve_loop(_, _, _, _, _)
\* The loop of _approve_insights over the candidates left
approve_loop(insights, allowed_urls, existing_texts, max_count, approved) ==
    IF insights = <<>> THEN approved
    ELSE LET current_context == [i \in DOMAIN approved |-> approved[i].insight]
             filtered == _approve_insight(Some(Head(insights)), allowed_urls,
                                          existing_texts \o current_context)
         IN  IF filtered = None
             THEN approve_loop(Tail(insights), allowed_urls, existing_texts,
                               max_count, approved)
             ELSE IF cap_reached(Append(approved, filtered[1]), max_count)
                  THEN Append(approved, filtered[1])
                  ELSE approve_loop(Tail(insights), allowed_urls, existing_texts,
                                    max_count, Append(approved, filtered[1]))

\* DigestBuilder._approve_insights
_approve_insights(insights, allowed_urls, existing_texts, max_count) ==
    approve_loop(insights, allowed_urls, existing_texts, max_count, <<>>)

(***************************************************************************)
(* Bounds and the inputs drawn                                             *)
(***************************************************************************)
MaxArticles == 3      \* longest input list
MaxCandidates == 3    \* longest cross_category_insights list the client returns
MaxCap == 2           \* largest max_insights_per_digest configured

\* URLs (str(article.url) of a validated URL holds no whitespace, may end in "/")
U1 == <<"u", "1">>
U2 == <<"u", "2", "/">>
U3 == <<"u", "3">>
U4 == <<"u", "4">>
Ghost == <<"z", "z">>                         \* the URL of no article

\* Prose
K1 == <<"k", "1">>
K2 == <<"k", "2">>
K3 == <<"k", "3">>
K4 == <<"k", "4">>
Syn == <<"s", "y", "n">>
Why == <<"w", "h", "y">>
X1 == <<"a", " ", "b", " ", "c", " ", "d", " ", "e">>
X1Case == <<"A", " ", " ", "b", "\t", "C", " ", "d", " ", "e">>
X1Near == <<"a", " ", "b", " ", "c", " ", "d", " ", "z">>      \* 4 of 5 tokens of X1
X2 == <<" ", "f", " ", "g", " ">>
X3 == <<"h", " ", "i">>
Blank == <<" ", " ">>

Article(id, url, category, feed, summary, key_takeaways) ==
    [id |-> id, url |-> url, category |-> category, feed_url |-> feed,
     feed_name |-> feed, summary |-> summary, key_takeaways |-> key_takeaways]

ArticlePool ==
    { Article(1, U1, <<"T">>, <<"f", "1">>, Some(<<"s", "1">>), <<K1, K2, K3, K4>>),
      Article(2, U2, <<"T">>, <<"f", "1">>, None, <<>>),
      Article(3, U3, <<"B">>, <<"f", "2">>, Some(<<"s", "3">>), <<K1>>),
      Article(4, U4, <<"a", "i">>, <<"f", "3">>, Some(<<>>), <<K2, K3>>) }

RECURSIVE ListsOf(_, _)
\* The lists of at most n distinct elements of S
ListsOf(S, n) ==
    IF n = 0 THEN {<<>>}
    ELSE LET shorter == ListsOf(S, n - 1) IN
         shorter \cup {Append(l, x) : l \in {m \in shorter : Len(m) = n - 1},
                                      x \in S} 

Distinct(l) == \A i, j \in DOMAIN l : i # j => l[i] # l[j]

ArticleLists == {l \in ListsOf(ArticlePool, MaxArticles) : Distinct(l)}

Insight(text, why, confidence, urls) ==
    [insight |-> text, why_unintuitive |-> why, confidence |-> confidence,
     supporting_urls |-> urls]

\* Candidate insights a category call returns
CategoryCandidates ==
    { Insight(X2, Why, 4, <<U1>>),
      Insight(X2, Why, 2, <<U1>>),
      Insight(X3, Why, 5, <<Ghost>>),
      Insight(X3, <<" ", "w", " ">>, 5, <<<<" ", "u", "2", "/", " ">>, <<"u", "2">>, U3>>),
      Insight(X1Case, Why, 5, <<U1>>),
      Insight(X3, Blank, 5, <<U1>>),
      Insight(X3, Why, 6, <<U1>>) }

\* response.parsed of a category call (synthesis: optional, absent when the
\* client's output lacks the field)
CategoryParsed ==
    { [synthesis |-> Some(Syn), top_takeaways |-> <<X1>>, non_obvious_insight |-> i] :
        i \in {None} \cup {Some(c) : c \in CategoryCandidates} }
    \cup { [synthesis |-> None, top_takeaways |-> <<>>, non_obvious_insight |-> None] }

\* Candidate insights an overall call returns (the last repeats the first's
\* text in another case and spacing)
OverallCandidates ==
    { Insight(X2, Why, 5, <<U1, U3>>),
      Insight(X3, Why, 5, <<U2>>),
      Insight(X1Near, Why, 4, <<U3, Ghost, <<"u", "3", "/">>>>),
      Insight(<<"F", " ", " ", "g">>, Why, 5, <<U1>>) }

\* The lists of at most MaxCandidates distinct candidates
CandidateLists == {l \in ListsOf(OverallCandidates, MaxCandidates) : Distinct(l)}

MustReads ==
    { <<>>,
      <<U1, Ghost, U3>>,
      <<<<"u", "1", "/">>, <<" ", "u", "1">>, U2, U3, U4, U3>> }

\* response.parsed of an overall call
OverallParsed ==
    { [overall_themes |-> <<>>, must_read_overall |-> <<U1, Ghost, U3>>,
       cross_category_insights |-> c] : c \in CandidateLists }
    \cup { [overall_themes |-> <<X1>>, must_read_overall |-> m,
            cross_category_insights |-> c] :
            m \in MustReads, c \in {l \in CandidateLists : Len(l) <= 1} }
    \cup { [overall_themes |-> <<X1>>, must_read_overall |-> <<U1>>,
            cross_category_insights |-> <<Insight(X3, Why, 5, <<U2>>),
                                          Insight(X2, Why, 0, <<U1>>)>>] }

\* What a generate() call that fails raises
Raises == {"LLMError", "TimeoutError"}

\* LLMResponse.input_tokens / output_tokens the client reports
CategoryTokens == [input_tokens |-> 50, output_tokens |-> 25]
OverallTokens == [input_tokens |-> 40, output_tokens |-> 20]

(***************************************************************************)
(* build_digest                                                            *)
(***************************************************************************)
RECURSIVE str_int(_)
\* str(n) of a natural number
str_int(n) == IF n < 10 THEN <<Digits[n + 1]>> ELSE str_int(n \div 10) \o <<Digits[(n % 10) + 1]>>

RECURSIVE sorted(_)
\* sorted() of a set of str, as a list
sorted(S) ==
    IF S = {} THEN <<>>
    ELSE LET least == CHOOSE x \in S : \A y \in S \ {x} : str_less(x, y)
         IN  <<least>> \o sorted(S \ {least})
RECURSIVE insertion_order(_, _)
\* The keys of by_category in the order the grouping loop inserted them
insertion_order(arts, names) ==
    IF arts = <<>> THEN names
    ELSE insertion_order(Tail(arts),
            IF Head(arts).category \in Range(names) THEN names
            ELSE Append(names, Head(arts).category))
\* Mutant: by_category.items() in place of sorted(by_category.items())
sorted_by_category_unsorted(arts) ==
    LET names == insertion_order(arts, <<>>)
    IN  [k \in DOMAIN names |->
            <<names[k], SelectSeq(arts, LAMBDA a : a.category = names[k])>>]
\* Mutant: by_category[article.category] = [article] in place of append
sorted_by_category_overwrite(arts) ==
    LET names == sorted({arts[i].category : i \in DOMAIN arts})
        of(name) == SelectSeq(arts, LAMBDA a : a.category = name)
    IN  [k \in DOMAIN names |-> <<names[k], <<of(names[k])[Len(of(names[k]))]>> >>]

\* by_category after the grouping loop, as sorted(by_category.items()) lists it
sorted_by_category(arts) ==
    LET names == sorted({arts[i].category : i \in DOMAIN arts})
    IN  [k \in DOMAIN names |->
            <<names[k], SelectSeq(arts, LAMBDA a : a.category = names[k])>>]

\* {self._normalize_url(str(article.url)) for article in articles}
allowed_urls_of(arts) == {_normalize_url(arts[i].url) : i \in DOMAIN arts}

\* x or default, on an optional str
str_or(x, default) == IF x = None \/ x[1] = <<>> THEN default ELSE x[1]

CategoryDigest(name, arts, synthesis, top_takeaways, non_obvious_insight) ==
    [name |-> name, article_count |-> Len(arts), articles |-> arts,
     synthesis |-> synthesis, top_takeaways |-> top_takeaways,
     non_obvious_insight |-> non_obvious_insight]

\* list[:n]
take(l, n) == SubSeq(l, 1, Min(n, Len(l)))
\* Mutant: except LLMError in place of except Exception
except_LLMError(exc) == exc = "LLMError"

\* except Exception: the exceptions the handler catches
except_Exception(exc) == exc \in {"LLMError", "TimeoutError", "ValidationError"}

\* Mutant: Field(..., le=5) in place of Field(..., ge=1, le=5)
valid_insight_without_ge(i) == i.confidence <= 5

\* CategorySynthesisResponse / InsightResponse validation (Field(..., ge=1, le=5))
valid_insight(i) == i.confidence >= 1 /\ i.confidence <= 5

valid_category(parsed) ==
    /\ parsed.synthesis # None
    /\ parsed.non_obvious_insight # None => valid_insight(parsed.non_obvious_insight[1])

\* Mutant: OverallSynthesisResponse.model_validate left out
valid_overall_unchecked(parsed) == TRUE

valid_overall(parsed) ==
    \A i \in DOMAIN parsed.cross_category_insights :
        valid_insight(parsed.cross_category_insights[i])

RECURSIVE first_takeaways(_, _)
\* The loop of the except branch of _build_category_digest
first_takeaways(arts, top_takeaways) ==
    IF arts = <<>> THEN top_takeaways
    ELSE first_takeaways(Tail(arts),
            IF Head(arts).key_takeaways # <<>>
            THEN Append(top_takeaways, Head(arts).key_takeaways[1])
            ELSE top_takeaways)

\* f"Today's {category_name} coverage includes {len(articles)} articles."
fallback_synthesis(name, arts) ==
    <<"T","o","d","a","y","'","s"," ">> \o name
    \o <<" ","c","o","v","e","r","a","g","e"," ","i","n","c","l","u","d","e","s"," ">>
    \o str_int(Len(arts)) \o <<" ","a","r","t","i","c","l","e","s",".">>

\* Mutant: `for article in articles` in place of `for article in articles[:3]`
category_fallback_uncapped(name, arts, top_takeaways) ==
    CategoryDigest(name, arts, fallback_synthesis(name, arts),
                   first_takeaways(arts, top_takeaways), None)

\* The except branch of _build_category_digest (top_takeaways: as the try left it)
category_fallback(name, arts, top_takeaways) ==
    CategoryDigest(name, arts, fallback_synthesis(name, arts),
                   first_takeaways(take(arts, 3), top_takeaways), None)

\* Mutant: article.key_takeaways in place of article.key_takeaways[:3]
category_single_all_takeaways(name, arts) ==
    LET article == arts[1] IN
    CategoryDigest(name, arts,
        str_or(article.summary,
               <<"O","n","e"," ","a","r","t","i","c","l","e"," ","f","r","o","m"," ">>
               \o article.feed_name \o <<".">>),
        article.key_takeaways, None)

\* The else branch of _build_category_digest: one article, no call
category_single(name, arts) ==
    LET article == arts[1] IN
    CategoryDigest(name, arts,
        str_or(article.summary,
               <<"O","n","e"," ","a","r","t","i","c","l","e"," ","f","r","o","m"," ">>
               \o article.feed_name \o <<".">>),
        take(article.key_takeaways, 3), None)

\* Mutant: allowed_urls built from every input article, not the category's own
category_synthesized_any_url(name, arts, parsed) ==
    CategoryDigest(name, arts, parsed.synthesis[1], parsed.top_takeaways,
        _approve_insight(parsed.non_obvious_insight, allowed_urls_of(articles),
                         parsed.top_takeaways))

\* Mutant: a candidate the gate drops raises inside the try, to the fallback
category_synthesized_drop_raises(name, arts, parsed) ==
    IF /\ parsed.non_obvious_insight # None
       /\ _approve_insight(parsed.non_obvious_insight, allowed_urls_of(arts),
                           parsed.top_takeaways) = None
    THEN category_fallback(name, arts, parsed.top_takeaways)
    ELSE CategoryDigest(name, arts, parsed.synthesis[1], parsed.top_takeaways,
            _approve_insight(parsed.non_obvious_insight, allowed_urls_of(arts),
                             parsed.top_takeaways))

\* Mutant: once a category call has failed, the later categories fall back too
category_synthesized_after_failure(name, arts, parsed) ==
    IF \E i \in DOMAIN llm_calls :
          llm_calls[i].parsed = None \/ ~valid_category(llm_calls[i].parsed[1])
    THEN category_fallback(name, arts, <<>>)
    ELSE CategoryDigest(name, arts, parsed.synthesis[1], parsed.top_takeaways,
            _approve_insight(parsed.non_obvious_insight, allowed_urls_of(arts),
                             parsed.top_takeaways))

\* The try branch of _build_category_digest once the response validated
category_synthesized(name, arts, parsed) ==
    CategoryDigest(name, arts, parsed.synthesis[1], parsed.top_takeaways,
        _approve_insight(parsed.non_obvious_insight, allowed_urls_of(arts),
                         parsed.top_takeaways))

\* One generate() call as the client saw it: the schema asked for, the category
\* (None for the overall call), and what it returned (None when it raised)
call(schema, name, parsed, tokens) ==
    [schema |-> schema, name |-> name, parsed |-> parsed, tokens |-> tokens]

Start ==
    /\ pc = "start"
    /\ by_category' = sorted_by_category(articles)
    /\ pc' = "categories"
    /\ UNCHANGED <<articles, insights_mode, insight_min_confidence,
                   max_insights_per_digest, category_digests, ret, raised,
                   llm_calls, gate>>
    /\ UNCHANGED retry_vars

category_pending ==
    pc = "categories" /\ Len(category_digests) < Len(by_category)

category_name == by_category[Len(category_digests) + 1][1]
category_articles == by_category[Len(category_digests) + 1][2]

escape(exc) ==
    /\ raised' = Some(exc)
    /\ pc' = "raised"
    /\ UNCHANGED <<category_digests, ret>>

\* _build_category_digest on a category of one article
CategorySingle ==
    /\ category_pending
    /\ Len(category_articles) = 1
    /\ category_digests' =
         Append(category_digests, category_single(category_name, category_articles))
    /\ UNCHANGED <<articles, insights_mode, insight_min_confidence,
                   max_insights_per_digest, pc, by_category, ret, raised,
                   llm_calls, gate>>
    /\ UNCHANGED retry_vars

\* _build_category_digest on several articles, generate() returning a response
CategoryReturned ==
    /\ category_pending
    /\ Len(category_articles) > 1
    /\ \E parsed \in CategoryParsed :
         /\ llm_calls' = Append(llm_calls, call("category", Some(category_name), Some(parsed), Some(CategoryTokens)))
         /\ IF valid_category(parsed)
            THEN /\ category_digests' = Append(category_digests,
                        category_synthesized(category_name, category_articles, parsed))
                 /\ UNCHANGED <<pc, ret, raised>>
            ELSE IF except_Exception("ValidationError")
            THEN /\ category_digests' = Append(category_digests,
                        category_fallback(category_name, category_articles, <<>>))
                 /\ UNCHANGED <<pc, ret, raised>>
            ELSE escape("ValidationError")
    /\ UNCHANGED <<articles, insights_mode, insight_min_confidence,
                   max_insights_per_digest, by_category, gate>>
    /\ UNCHANGED retry_vars

\* _build_category_digest on several articles, generate() raising
CategoryRaised ==
    /\ category_pending
    /\ Len(category_articles) > 1
    /\ \E exc \in Raises :
         /\ llm_calls' = Append(llm_calls, call("category", Some(category_name), None, None))
         /\ IF except_Exception(exc)
            THEN /\ category_digests' = Append(category_digests,
                        category_fallback(category_name, category_articles, <<>>))
                 /\ UNCHANGED <<pc, ret, raised>>
            ELSE escape(exc)
    /\ UNCHANGED <<articles, insights_mode, insight_min_confidence,
                   max_insights_per_digest, by_category, gate>>
    /\ UNCHANGED retry_vars

\* {article.feed_url for article in articles}
feed_urls(arts) == {arts[i].feed_url : i \in DOMAIN arts}

RECURSIVE flatten(_)
flatten(ls) == IF ls = <<>> THEN <<>> ELSE Head(ls) \o flatten(Tail(ls))

\* allowed_urls of _synthesize_overall: every article of every category digest
overall_allowed_urls(digests) ==
    allowed_urls_of(flatten([i \in DOMAIN digests |-> digests[i].articles]))

\* Mutant: _filter_urls(parsed.must_read_overall[:3], allowed_urls), the cap
\* before the filter
overall_synthesized_cap_first(digests, parsed) ==
    [overall_themes |-> parsed.overall_themes,
     must_read |-> _filter_urls(take(parsed.must_read_overall, 3),
                                overall_allowed_urls(digests)),
     non_obvious_insights |->
        _approve_insights(parsed.cross_category_insights,
                          overall_allowed_urls(digests),
                          parsed.overall_themes, max_insights_per_digest)]

\* The triple _synthesize_overall returns from a validated response
overall_synthesized(digests, parsed) ==
    [overall_themes |-> parsed.overall_themes,
     must_read |-> take(_filter_urls(parsed.must_read_overall,
                                     overall_allowed_urls(digests)), 3),
     non_obvious_insights |->
        _approve_insights(parsed.cross_category_insights,
                          overall_allowed_urls(digests),
                          parsed.overall_themes, max_insights_per_digest)]

\* return [], [], []
overall_empty == [overall_themes |-> <<>>, must_read |-> <<>>, non_obvious_insights |-> <<>>]

\* Mutant: len([article.feed_url ...]) in place of len({article.feed_url ...})
DailyDigest_counting_every_feed_url(arts, digests, triple) ==
    [categories |-> digests, total_articles |-> Len(arts),
     total_feeds |-> Len(arts),
     overall_themes |-> triple.overall_themes, must_read |-> triple.must_read,
     non_obvious_insights |-> triple.non_obvious_insights]

\* DailyDigest(...) of build_digest (id and date left out)
DailyDigest(arts, digests, triple) ==
    [categories |-> digests, total_articles |-> Len(arts),
     total_feeds |-> Cardinality(feed_urls(arts)),
     overall_themes |-> triple.overall_themes, must_read |-> triple.must_read,
     non_obvious_insights |-> triple.non_obvious_insights]

\* What build_digest returns: `return digest`
returned(digest) == <<digest>>

finish(triple) ==
    /\ ret' = returned(DailyDigest(articles, category_digests, triple))
    /\ pc' = "done"
    /\ UNCHANGED <<raised, category_digests>>

\* Mutant: the overall synthesis entered as soon as one category digest is built
overall_pending_after_first ==
    pc = "categories" /\ (category_digests # <<>> \/ by_category = <<>>)

overall_pending ==
    pc = "categories" /\ Len(category_digests) = Len(by_category)

\* _synthesize_overall with no category digest: no call; then the return
OverallEmpty ==
    /\ overall_pending
    /\ category_digests = <<>>
    /\ finish(overall_empty)
    /\ UNCHANGED <<articles, insights_mode, insight_min_confidence,
                   max_insights_per_digest, by_category, llm_calls, gate>>
    /\ UNCHANGED retry_vars

\* _synthesize_overall, generate() returning a response; then the return
OverallReturned ==
    /\ overall_pending
    /\ category_digests # <<>>
    /\ \E parsed \in OverallParsed :
         /\ llm_calls' = Append(llm_calls, call("overall", None, Some(parsed), Some(OverallTokens)))
         /\ IF valid_overall(parsed)
            THEN finish(overall_synthesized(category_digests, parsed))
            ELSE IF except_Exception("ValidationError")
            THEN finish(overall_empty)
            ELSE escape("ValidationError")
    /\ UNCHANGED <<articles, insights_mode, insight_min_confidence,
                   max_insights_per_digest, by_category, gate>>
    /\ UNCHANGED retry_vars

\* _synthesize_overall, generate() raising; then the return
OverallRaised ==
    /\ overall_pending
    /\ category_digests # <<>>
    /\ \E exc \in Raises :
         /\ llm_calls' = Append(llm_calls, call("overall", None, None, None))
         /\ IF except_Exception(exc)
            THEN finish(overall_empty)
            ELSE escape(exc)
    /\ UNCHANGED <<articles, insights_mode, insight_min_confidence,
                   max_insights_per_digest, by_category, gate>>
    /\ UNCHANGED retry_vars

\* RetryClient's defaults (retry.py lines 33-34; base_delay 1.0, in seconds)
DefaultMaxRetries == 2
DefaultBaseDelay == 1

\* A RetryClient with the defaults, its generate() not entered
retry_idle ==
    /\ max_retries = DefaultMaxRetries
    /\ attempt = 0
    /\ inner_calls = <<>>
    /\ slept = <<>>

Modes == {"off", "auto", "always"}
MinConfidences == {4, 5}

\* The constructor's defaults (lines 76-77)
DefaultMinConfidence == 4
DefaultMaxInsights == 2

Config(mode, min_confidence, max_insights) ==
    [insights_mode |-> mode, insight_min_confidence |-> min_confidence,
     max_insights_per_digest |-> max_insights]

\* The configurations built: the defaults, and each of the mode, the minimum
\* and the cap varied from them
Configs ==
    {Config(m, DefaultMinConfidence, DefaultMaxInsights) : m \in Modes}
    \cup {Config("auto", c, DefaultMaxInsights) : c \in MinConfidences}
    \cup {Config("auto", DefaultMinConfidence, k) : k \in 0..MaxCap}

Init ==
    /\ articles \in ArticleLists
    /\ \E config \in Configs :
         /\ insights_mode = config.insights_mode
         /\ insight_min_confidence = config.insight_min_confidence
         /\ max_insights_per_digest = config.max_insights_per_digest
    /\ pc = "start"
    /\ by_category = <<>>
    /\ category_digests = <<>>
    /\ ret = None
    /\ raised = None
    /\ llm_calls = <<>>
    /\ gate = None
    /\ retry_idle

Next ==
    \/ Start
    \/ CategorySingle
    \/ CategoryReturned
    \/ CategoryRaised
    \/ OverallEmpty
    \/ OverallReturned
    \/ OverallRaised

Spec == Init /\ [][Next]_vars

(***************************************************************************)
(* The gate and the duplicate test on their own: the inputs are drawn and   *)
(* _approve_insight / _is_near_duplicate applied to them                    *)
(***************************************************************************)
Punct == <<"!", "?">>
X1Sub == <<"a", " ", "b", " ", "c">>
X1Comma == <<"a", ",", "b", ",", "c", ",", "d", ",", "e">>
X1Far == <<"a", " ", "b", " ", "c", " ", "y", " ", "z">>       \* 3 of 5 tokens of X1

GateTexts == {X1, X1Case, X1Near, X1Sub, X1Comma, X1Far, X2, Blank, Punct, <<>>}

GateUrlLists ==
    { <<U1>>, <<Ghost>>, <<>>, <<<<" ", "u", "2", "/", " ">>, <<"u", "2">>, Ghost>>,
      <<<<"u", "1", "/">>>>,
      <<U2, Ghost, <<" ", "u", "1", " ">>, <<"u", "2", "/", "/">>, U1>> }

GateAllowed == { {}, {_normalize_url(U1), _normalize_url(U2)} }

GateExisting == { <<>>, <<X1>>, <<Blank, X1Near>>, <<Punct, X2>> }

GateCandidates ==
    { Insight(t, w, c, u) : t \in GateTexts, w \in {Why, Blank}, c \in 1..5,
                            u \in GateUrlLists }

\* One application of _approve_insight
ApproveInsight ==
    /\ pc = "gate"
    /\ gate = None
    /\ \E insight \in {None} \cup {Some(c) : c \in GateCandidates},
          allowed_urls \in GateAllowed, existing_texts \in GateExisting :
         gate' = Some([op |-> "_approve_insight", insight |-> insight,
                       allowed_urls |-> allowed_urls, existing_texts |-> existing_texts,
                       result |-> _approve_insight(insight, allowed_urls, existing_texts)])
    /\ UNCHANGED <<articles, insights_mode, insight_min_confidence,
                   max_insights_per_digest, pc, by_category, category_digests,
                   ret, raised, llm_calls>>
    /\ UNCHANGED retry_vars

\* One application of _is_near_duplicate
IsNearDuplicate ==
    /\ pc = "gate"
    /\ gate = None
    /\ \E candidate \in GateTexts, existing_texts \in GateExisting \cup {<<t>> : t \in GateTexts} :
         gate' = Some([op |-> "_is_near_duplicate", candidate |-> candidate,
                       existing_texts |-> existing_texts,
                       result |-> _is_near_duplicate(candidate, existing_texts)])
    /\ UNCHANGED <<articles, insights_mode, insight_min_confidence,
                   max_insights_per_digest, pc, by_category, category_digests,
                   ret, raised, llm_calls>>
    /\ UNCHANGED retry_vars

GateInit ==
    /\ articles = <<>>
    /\ insights_mode \in Modes
    /\ insight_min_confidence \in 1..5
    /\ max_insights_per_digest = DefaultMaxInsights
    /\ pc = "gate"
    /\ by_category = <<>>
    /\ category_digests = <<>>
    /\ ret = None
    /\ raised = None
    /\ llm_calls = <<>>
    /\ gate = None
    /\ retry_idle

GateNext == ApproveInsight \/ IsNearDuplicate

GateSpec == GateInit /\ [][GateNext]_vars

(***************************************************************************)
(* build_digest on the articles of one category: the category is long       *)
(* enough for the articles[:3] of the fallback to cut it                    *)
(***************************************************************************)
MaxCategoryArticles == 4    \* longest list of articles of the one category

U5 == <<"u", "5">>
U6 == <<"u", "6">>
U7 == <<"u", "7">>

\* Articles of the category "T" (articles 1 and 5 open with the same takeaway)
CategoryArticlePool ==
    { Article(1, U1, <<"T">>, <<"f", "1">>, Some(<<"s", "1">>), <<K1, K2, K3, K4>>),
      Article(2, U2, <<"T">>, <<"f", "1">>, None, <<>>),
      Article(5, U5, <<"T">>, <<"f", "2">>, Some(<<"s", "5">>), <<K1>>),
      Article(6, U6, <<"T">>, <<"f", "2">>, Some(<<"s", "6">>), <<K2, K3>>),
      Article(7, U7, <<"T">>, <<"f", "3">>, None, <<K3>>) }

CategoryArticleLists ==
    {l \in ListsOf(CategoryArticlePool, MaxCategoryArticles) : Distinct(l)}

CategoryInit ==
    /\ articles \in CategoryArticleLists
    /\ insights_mode = "auto"
    /\ insight_min_confidence = DefaultMinConfidence
    /\ max_insights_per_digest = DefaultMaxInsights
    /\ pc = "start"
    /\ by_category = <<>>
    /\ category_digests = <<>>
    /\ ret = None
    /\ raised = None
    /\ llm_calls = <<>>
    /\ gate = None
    /\ retry_idle

CategorySpec == CategoryInit /\ [][Next]_vars

(***************************************************************************)
(* build_digest on one input of five articles in three categories, two of   *)
(* them of two articles (two category calls, five allowed URLs), and on the *)
(* empty input                                                              *)
(***************************************************************************)
U8 == <<"u", "8">>

SampleArticles ==
    << Article(4, U4, <<"a", "i">>, <<"f", "3">>, Some(<<>>), <<K2, K3>>),
       Article(1, U1, <<"T">>, <<"f", "1">>, Some(<<"s", "1">>), <<K1, K2, K3, K4>>),
       Article(3, U3, <<"B">>, <<"f", "2">>, Some(<<"s", "3">>), <<K1>>),
       Article(2, U2, <<"T">>, <<"f", "1">>, None, <<>>),
       Article(8, U8, <<"B">>, <<"f", "2">>, Some(<<"s", "8">>), <<K2>>) >>

SampleInit ==
    /\ articles \in {<<>>, SampleArticles}
    /\ \E config \in Configs :
         /\ insights_mode = config.insights_mode
         /\ insight_min_confidence = config.insight_min_confidence
         /\ max_insights_per_digest = config.max_insights_per_digest
    /\ pc = "start"
    /\ by_category = <<>>
    /\ category_digests = <<>>
    /\ ret = None
    /\ raised = None
    /\ llm_calls = <<>>
    /\ gate = None
    /\ retry_idle

SampleSpec == SampleInit /\ [][Next]_vars

(***************************************************************************)
(* RetryClient (src/src/llm/retry.py)                                       *)
(***************************************************************************)
MaxRetries == 2    \* largest max_retries configured

\* s[i - 1 : i - 1 + len(literal)] == literal, i counted from 1
literal_at(s, i, literal) ==
    /\ i >= 1
    /\ i + Len(literal) - 1 <= Len(s)
    /\ SubSeq(s, i, i + Len(literal) - 1) = literal

\* \w
word_char(c) == c \in Range(Lowercase) \cup Range(Uppercase) \cup Range(Digits) \cup {"_"}

\* \b in front of position i (i = Len(s) + 1: at the end)
word_boundary(s, i) ==
    (i > 1 /\ word_char(s[i - 1])) # (i <= Len(s) /\ word_char(s[i]))

\* timed?\s*out matches at i
timed_out_at(s, i) ==
    /\ literal_at(s, i, <<"t", "i", "m", "e">>)
    /\ \E j \in {i + 4} \cup (IF literal_at(s, i + 4, <<"d">>) THEN {i + 5} ELSE {}) :
          \E k \in j..Len(s) :
              /\ \A x \in j..(k - 1) : s[x] \in Whitespace
              /\ literal_at(s, k, <<"o", "u", "t">>)

\* \brate.?limit matches at i
rate_limit_at(s, i) ==
    /\ word_boundary(s, i)
    /\ literal_at(s, i, <<"r", "a", "t", "e">>)
    /\ \/ literal_at(s, i + 4, <<"l", "i", "m", "i", "t">>)
       \/ (i + 4 <= Len(s) /\ s[i + 4] # "\n" /\ literal_at(s, i + 5, <<"l", "i", "m", "i", "t">>))

\* \bNNN\b matches at i
status_code_at(s, i, code) ==
    word_boundary(s, i) /\ literal_at(s, i, code) /\ word_boundary(s, i + Len(code))

\* _RETRYABLE_PATTERNS.search(text) is not None (re.IGNORECASE: on the lowered text)
_RETRYABLE_PATTERNS_search(text) ==
    LET s == lower(text) IN
    \E i \in 1..Len(s) :
        \/ timed_out_at(s, i)
        \/ literal_at(s, i, <<"d", "e", "a", "d", "l", "i", "n", "e", " ", "e", "x", "c", "e", "e", "d", "e", "d">>)
        \/ status_code_at(s, i, <<"4", "2", "9">>)
        \/ rate_limit_at(s, i)
        \/ \E code \in {<<"5", "0", "0">>, <<"5", "0", "2">>, <<"5", "0", "3">>,
                        <<"5", "2", "9">>} : status_code_at(s, i, code)
        \/ literal_at(s, i, <<"o", "v", "e", "r", "l", "o", "a", "d", "e", "d">>)
        \/ literal_at(s, i, <<"u", "n", "a", "v", "a", "i", "l", "a", "b", "l", "e">>)

\* An exception: its class and str(exc)
Exc(type, message) == [type |-> type, message |-> message]

\* _is_retryable
_is_retryable(error) == _RETRYABLE_PATTERNS_search(error.message)

\* Messages of the errors the inner client raises
TimedOut == <<"r", "e", "q", "u", "e", "s", "t", " ", "t", "i", "m", "e", "d", " ", "o", "u", "t">>
TooManyRequests == <<"4", "2", "9", " ", "T", "o", "o", " ", "M", "a", "n", "y", " ", "R", "e", "q", "u", "e", "s", "t", "s">>
RateLimit == <<"R", "a", "t", "e", "-", "L", "i", "m", "i", "t", " ", "h", "i", "t">>
Unauthorized == <<"4", "0", "1", " ", "U", "n", "a", "u", "t", "h", "o", "r", "i", "z", "e", "d">>
ParsingFailed == <<"r", "e", "s", "p", "o", "n", "s", "e", " ", "p", "a", "r", "s", "i", "n", "g", " ", "f", "a", "i", "l", "e", "d">>
LongNumber == <<"i", "d", " ", "1", "5", "0", "0", "0">>

\* What self.inner.generate raises: LLMErrors, and an exception of another class
InnerExceptions ==
    { Exc("LLMError", m) : m \in {TimedOut, TooManyRequests, RateLimit, Unauthorized,
                                  ParsingFailed, LongNumber} }
    \cup { Exc("TimeoutError", TimedOut) }

LLMResponse(parsed, input_tokens, output_tokens) ==
    [parsed |-> parsed, input_tokens |-> input_tokens, output_tokens |-> output_tokens]

OK_RESPONSE == LLMResponse([summary |-> <<"o", "k">>], 10, 5)

\* What self.inner.generate returns
Responses == { OK_RESPONSE, LLMResponse([summary |-> <<>>], 0, 0) }

\* One call of self.inner.generate: what it returned or raised (optional values)
inner_call(response, exc) == [returned |-> response, raised |-> exc]

RECURSIVE pow2(_)
\* 2 ** n
pow2(n) == IF n = 0 THEN 1 ELSE 2 * pow2(n - 1)

\* except LLMError
isinstance_LLMError(exc) == exc.type = "LLMError"
\* Mutant: attempt + 1 == self.max_retries in place of attempt == self.max_retries
gives_up_one_early(exc) == ~_is_retryable(exc) \/ attempt + 1 = max_retries
\* Mutant: the `not _is_retryable(exc)` test left out
gives_up_at_bound_only(exc) == attempt = max_retries

\* not _is_retryable(exc) or attempt == self.max_retries
gives_up(exc) == ~_is_retryable(exc) \/ attempt = max_retries

\* raise, out of generate
reraise(exc) ==
    /\ raised' = Some(exc)
    /\ pc' = "raised"
    /\ UNCHANGED <<attempt, slept, ret>>
\* Mutant: `response = self.inner.generate(...)` with the return left to the loop's end
return_after_loop(response) ==
    /\ ret' = Some(response)
    /\ pc' = IF attempt = max_retries THEN "returned" ELSE "generate"
    /\ attempt' = attempt + 1
    /\ UNCHANGED <<slept, raised>>

\* return self.inner.generate(...)
return_response(response) ==
    /\ ret' = Some(response)
    /\ pc' = "returned"
    /\ UNCHANGED <<attempt, slept, raised>>

\* One attempt of the loop of generate, the inner client returning
InnerReturns ==
    /\ pc = "generate"
    /\ attempt \in 0..max_retries
    /\ \E response \in Responses :
         /\ inner_calls' = Append(inner_calls, inner_call(Some(response), None))
         /\ return_response(response)
    /\ UNCHANGED <<articles, insights_mode, insight_min_confidence,
                   max_insights_per_digest, by_category, category_digests,
                   llm_calls, gate, max_retries>>

\* One attempt of the loop of generate, the inner client raising: the handler
\* raises again, or sleeps and goes on to the next attempt (a loop that ran out
\* would reach the raise of line 58)
InnerRaises ==
    /\ pc = "generate"
    /\ attempt \in 0..max_retries
    /\ \E exc \in InnerExceptions :
         /\ inner_calls' = Append(inner_calls, inner_call(None, Some(exc)))
         /\ IF ~isinstance_LLMError(exc) THEN reraise(exc)
            ELSE IF gives_up(exc) THEN reraise(exc)
            ELSE /\ slept' = Append(slept, DefaultBaseDelay * pow2(attempt))
                 /\ attempt' = attempt + 1
                 /\ IF attempt + 1 <= max_retries
                    THEN UNCHANGED <<pc, raised>>
                    ELSE /\ raised' = Some(Exc("LLMError", <<"U", "n", "e", "x", "p", "e", "c", "t", "e", "d", ":", " ", "r", "e", "t", "r", "y", " ", "l", "o", "o", "p", " ", "e", "x", "i", "t", "e", "d", " ", "w", "i", "t", "h", "o", "u", "t", " ", "r", "e", "t", "u", "r", "n", " ", "o", "r", " ", "r", "a", "i", "s", "e">>))
                         /\ pc' = "raised"
                 /\ UNCHANGED ret
    /\ UNCHANGED <<articles, insights_mode, insight_min_confidence,
                   max_insights_per_digest, by_category, category_digests,
                   llm_calls, gate, max_retries>>

RetryInit ==
    /\ articles = <<>>
    /\ insights_mode = "auto"
    /\ insight_min_confidence = DefaultMinConfidence
    /\ max_insights_per_digest = DefaultMaxInsights
    /\ pc = "generate"
    /\ by_category = <<>>
    /\ category_digests = <<>>
    /\ ret = None
    /\ raised = None
    /\ llm_calls = <<>>
    /\ gate = None
    /\ max_retries \in 0..MaxRetries
    /\ attempt = 0
    /\ inner_calls = <<>>
    /\ slept = <<>>

RetryNext == InnerReturns \/ InnerRaises

RetrySpec == RetryInit /\ [][RetryNext]_vars

(***************************************************************************)
(* Properties                                                              *)
(***************************************************************************)
Done == pc = "done"
digest == ret[1]

RECURSIVE Sum(_)
Sum(ns) == IF ns = <<>> THEN 0 ELSE Head(ns) + Sum(Tail(ns))

\* The places <<k, j>> of the built digest that hold article a
PlacesOf(a) ==
    UNION { {<<k, j>> : j \in {j \in DOMAIN digest.categories[k].articles :
                                  digest.categories[k].articles[j] = a}} :
            k \in DOMAIN digest.categories }

\* C1: in a built digest every input article is held by exactly one category
\* digest, the one named after the article's category; the digests hold nothing
\* else, and each article_count is the number of articles the digest holds.
C1_Partition ==
    Done =>
        /\ \A i \in DOMAIN articles :
              /\ Cardinality(PlacesOf(articles[i])) = 1
              /\ \A p \in PlacesOf(articles[i]) :
                    digest.categories[p[1]].name = articles[i].category
        /\ Sum([k \in DOMAIN digest.categories |->
                    Len(digest.categories[k].articles)]) = Len(articles)
        /\ \A k \in DOMAIN digest.categories :
              digest.categories[k].article_count = Len(digest.categories[k].articles)

C1_Witness ==
    /\ Done
    /\ Len(digest.categories) = 2
    /\ \E k \in DOMAIN digest.categories : digest.categories[k].article_count = 2


Calls(schema) == {c \in Range(llm_calls) : c.schema = schema}

\* The category calls that returned a valid response for the category of digest d
ValidCategoryCalls(d) ==
    {c \in Calls("category") :
        c.name = Some(d.name) /\ c.parsed # None /\ valid_category(c.parsed[1])}

\* The overall calls that returned a valid response
ValidOverallCalls ==
    {c \in Calls("overall") : c.parsed # None /\ valid_overall(c.parsed[1])}

CategoryInsightsOf(d) ==
    IF d.non_obvious_insight = None THEN {} ELSE {d.non_obvious_insight[1]}

RawUrls(arts) == {arts[i].url : i \in DOMAIN arts}

\* Every supporting URL of the candidate normalizes to a URL outside `allowed`
AllOutside(candidate, allowed) ==
    \A i \in DOMAIN candidate.supporting_urls :
        _normalize_url(candidate.supporting_urls[i]) \notin allowed

\* The provenance of the approved insights, against the URL sets given by Scope
Provenance(Scope(_)) ==
    /\ \A k \in DOMAIN digest.categories :
          \A n \in CategoryInsightsOf(digest.categories[k]) :
              /\ n.supporting_urls # <<>>
              /\ Range(n.supporting_urls) \subseteq Scope(digest.categories[k].articles)
    /\ \A i \in DOMAIN digest.non_obvious_insights :
          /\ digest.non_obvious_insights[i].supporting_urls # <<>>
          /\ Range(digest.non_obvious_insights[i].supporting_urls) \subseteq Scope(articles)

\* C2 as stated: every approved insight cites at least one URL and only URLs of
\* the articles (str(article.url)) that were inputs to its synthesis call.
C2_Original == Done => Provenance(RawUrls)

\* C2: every approved insight, of a category and cross-category, cites at least
\* one URL and only normalized URLs (trimmed, trailing slashes stripped) of the
\* articles that were inputs to its synthesis call; a candidate whose supporting
\* URLs all fall outside that set is dropped whatever its confidence.
C2_Provenance ==
    Done =>
        /\ Provenance(allowed_urls_of)
        /\ \A k \in DOMAIN digest.categories :
              \A c \in ValidCategoryCalls(digest.categories[k]) :
                  (/\ c.parsed[1].non_obvious_insight # None
                   /\ AllOutside(c.parsed[1].non_obvious_insight[1],
                                 allowed_urls_of(digest.categories[k].articles)))
                  => digest.categories[k].non_obvious_insight = None
        /\ \A c \in ValidOverallCalls :
              (\A i \in DOMAIN c.parsed[1].cross_category_insights :
                  AllOutside(c.parsed[1].cross_category_insights[i],
                             allowed_urls_of(articles)))
              => digest.non_obvious_insights = <<>>

C2_Witness ==
    /\ Done
    /\ \E k \in DOMAIN digest.categories :
          \E c \in ValidCategoryCalls(digest.categories[k]) :
              /\ c.parsed[1].non_obvious_insight # None
              /\ c.parsed[1].non_obvious_insight[1].confidence = 5
              /\ AllOutside(c.parsed[1].non_obvious_insight[1],
                            allowed_urls_of(digest.categories[k].articles))
              /\ digest.categories[k].non_obvious_insight = None
    /\ \E i \in DOMAIN digest.non_obvious_insights :
          Len(digest.non_obvious_insights[i].supporting_urls) = 2

\* Rules 3-5 of the gate on a candidate
PassesOtherRules(candidate, allowed, existing) ==
    /\ strip(candidate.insight) # <<>>
    /\ strip(candidate.why_unintuitive) # <<>>
    /\ ~AllOutside(candidate, allowed)
    /\ ~_is_near_duplicate(strip(candidate.insight), existing)

\* C3: a digest built in mode auto holds no insight of confidence below
\* insight_min_confidence; a category candidate below the minimum is dropped, and
\* one whose confidence equals the minimum and passes the other rules is included.
C3_AutoConfidence ==
    (Done /\ insights_mode = "auto") =>
        /\ \A k \in DOMAIN digest.categories :
              /\ \A n \in CategoryInsightsOf(digest.categories[k]) :
                    n.confidence >= insight_min_confidence
              /\ \A c \in ValidCategoryCalls(digest.categories[k]) :
                    c.parsed[1].non_obvious_insight # None =>
                        LET candidate == c.parsed[1].non_obvious_insight[1] IN
                        /\ candidate.confidence < insight_min_confidence
                              => digest.categories[k].non_obvious_insight = None
                        /\ (/\ candidate.confidence = insight_min_confidence
                            /\ PassesOtherRules(candidate,
                                   allowed_urls_of(digest.categories[k].articles),
                                   c.parsed[1].top_takeaways))
                              => /\ digest.categories[k].non_obvious_insight # None
                                 /\ digest.categories[k].non_obvious_insight[1].confidence
                                        = insight_min_confidence
        /\ \A i \in DOMAIN digest.non_obvious_insights :
              digest.non_obvious_insights[i].confidence >= insight_min_confidence

C3_Witness ==
    /\ Done
    /\ insights_mode = "auto"
    /\ insight_min_confidence = 4
    /\ \E k \in DOMAIN digest.categories :
          \E n \in CategoryInsightsOf(digest.categories[k]) : n.confidence = 4

\* C4 as stated: the digest holds at most max_insights_per_digest cross-category
\* insights, for every configured cap, 0 included.
C4_Cap == Done => Len(digest.non_obvious_insights) <= max_insights_per_digest

C6_NoEscape ==
    /\ raised = None
    /\ pc = "categories" =>
          ENABLED (CategorySingle \/ CategoryRaised \/ OverallEmpty \/ OverallRaised)
    /\ Done => (ret # None /\ digest.total_articles = Len(articles))

C6_Witness ==
    /\ Done
    /\ articles # <<>>
    /\ \E c \in Calls("category") : c.parsed = None
    /\ \E c \in Calls("overall") : c.parsed # None /\ ~valid_overall(c.parsed[1])

Reported(field) ==
    Sum([i \in DOMAIN llm_calls |->
            IF llm_calls[i].tokens = None THEN 0 ELSE llm_calls[i].tokens[1][field]])

\* C7 as stated: build_digest returns the digest with two token totals, the sums
\* of the input_tokens and output_tokens the calls of the build reported.
C7_Tokens ==
    Done =>
        /\ Len(ret) = 3
        /\ ret[2] = Reported("input_tokens")
        /\ ret[3] = Reported("output_tokens")

\* C8: a digest built in mode off holds no insight, of a category or
\* cross-category, whatever the client returned.
C8_Off ==
    (Done /\ insights_mode = "off") =>
        /\ \A k \in DOMAIN digest.categories :
              digest.categories[k].non_obvious_insight = None
        /\ digest.non_obvious_insights = <<>>

C8_Witness ==
    /\ Done
    /\ insights_mode = "off"
    /\ \E c \in Calls("category") :
          /\ c.parsed # None
          /\ c.parsed[1].non_obvious_insight = Some(Insight(X2, Why, 4, <<U1>>))
    /\ \E c \in ValidOverallCalls : Len(c.parsed[1].cross_category_insights) = 3


\* The gate's or the duplicate test's application, once made
Applied(op) == gate # None /\ gate[1].op = op

Tokens(text) == findall_alnum(_normalize_text(text))

\* The two texts are equal after lowercasing and collapsing whitespace
EqualNormalized(a, b) == _normalize_text(a) = _normalize_text(b)

\* |A n B| / min(|A|, |B|) >= 0.8 for the token sets of the two texts (the ratio
\* exists only when both sets are non-empty)
OverlapRatioReached(a, b) ==
    /\ Tokens(a) # {}
    /\ Tokens(b) # {}
    /\ 5 * Cardinality(Tokens(a) \cap Tokens(b))
          >= 4 * Min(Cardinality(Tokens(a)), Cardinality(Tokens(b)))

\* The text is a near-duplicate of one of the existing texts, by the two conditions
NearDuplicateOfSome(text, existing) ==
    \E i \in DOMAIN existing :
        EqualNormalized(text, existing[i]) \/ OverlapRatioReached(text, existing[i])

\* Rules 3-5 as C9 states them, on the candidate of the gate's application
StatedRules(g) ==
    /\ strip(g.insight[1].insight) # <<>>
    /\ strip(g.insight[1].why_unintuitive) # <<>>
    /\ ~AllOutside(g.insight[1], g.allowed_urls)
    /\ ~NearDuplicateOfSome(strip(g.insight[1].insight), g.existing_texts)

\* The decision does not change with the candidate's confidence
SameForEveryConfidence(g) ==
    \A k \in 1..5 :
        (_approve_insight(Some([g.insight[1] EXCEPT !.confidence = k]),
                          g.allowed_urls, g.existing_texts) = None)
        <=> (g.result = None)

\* C9 as stated: in mode always a candidate is approved if and only if its texts
\* are non-empty after trimming, a supporting URL resolves into allowed_urls and
\* its text is no near-duplicate of an existing text; confidence plays no part.
C9_Original ==
    (Applied("_approve_insight") /\ insights_mode = "always" /\ gate[1].insight # None) =>
        /\ (gate[1].result # None) <=> StatedRules(gate[1])
        /\ SameForEveryConfidence(gate[1])

\* C9: in mode always a candidate is approved if and only if its texts are
\* non-empty after trimming, its insight text holds at least one alphanumeric
\* token, a supporting URL resolves into allowed_urls and its text is no
\* near-duplicate of an existing text; confidence plays no part.
C9_Always ==
    (Applied("_approve_insight") /\ insights_mode = "always" /\ gate[1].insight # None) =>
        /\ (gate[1].result # None)
              <=> (StatedRules(gate[1]) /\ Tokens(gate[1].insight[1].insight) # {})
        /\ SameForEveryConfidence(gate[1])

C9_Witness ==
    /\ Applied("_approve_insight")
    /\ insights_mode = "always"
    /\ gate[1].insight # None
    /\ gate[1].insight[1].confidence < insight_min_confidence
    /\ gate[1].result # None

\* C10 as stated: a candidate (non-empty after trimming, as the gate hands it
\* over) is a duplicate exactly when it equals an existing text after lowercasing
\* and collapsing whitespace or shares at least 80% of tokens with one, and is no
\* duplicate of non-empty existing texts when neither condition holds.
C10_Original ==
    (/\ Applied("_is_near_duplicate")
     /\ strip(gate[1].candidate) # <<>>
     /\ gate[1].existing_texts # <<>>
     /\ \A i \in DOMAIN gate[1].existing_texts : gate[1].existing_texts[i] # <<>>) =>
        (gate[1].result <=> NearDuplicateOfSome(gate[1].candidate, gate[1].existing_texts))

\* C10: a candidate is a duplicate exactly when it holds no alphanumeric token,
\* or equals an existing text after lowercasing and collapsing whitespace, or
\* shares with an existing text at least 80% of the smaller token set (80%
\* itself counts).
C10_NearDuplicate ==
    Applied("_is_near_duplicate") =>
        (gate[1].result <=>
            \/ Tokens(gate[1].candidate) = {}
            \/ NearDuplicateOfSome(gate[1].candidate, gate[1].existing_texts))

C10_Witness ==
    /\ Applied("_is_near_duplicate")
    /\ gate[1].candidate = X1Near
    /\ gate[1].existing_texts = <<X1>>
    /\ gate[1].result

\* The category calls made for the category of digest d
CategoryCallsFor(d) == {c \in Calls("category") : c.name = Some(d.name)}

\* The article has a summary to show: one that is there and not empty
HasSummary(article) == article.summary # None /\ article.summary[1] # <<>>

Placeholder(article) ==
    <<"O","n","e"," ","a","r","t","i","c","l","e"," ","f","r","o","m"," ">>
    \o article.feed_name \o <<".">>

\* C11: for a category of exactly one article no LLM call is made for that
\* category; its synthesis is the article's summary, or the placeholder naming
\* the feed when the article has no summary (none, or an empty one); its
\* top_takeaways are the article's first three key takeaways in order.
C11_SingleArticle ==
    Done =>
        \A k \in DOMAIN digest.categories :
            LET d == digest.categories[k]
                article == d.articles[1]
            IN  d.article_count = 1 =>
                    /\ CategoryCallsFor(d) = {}
                    /\ HasSummary(article) => d.synthesis = article.summary[1]
                    /\ ~HasSummary(article) => d.synthesis = Placeholder(article)
                    /\ Len(d.top_takeaways) = Min(3, Len(article.key_takeaways))
                    /\ \A j \in DOMAIN d.top_takeaways :
                          d.top_takeaways[j] = article.key_takeaways[j]
                    /\ d.non_obvious_insight = None

C11_Witness ==
    /\ Done
    /\ Calls("category") = {}
    /\ \E k \in DOMAIN digest.categories :
          /\ digest.categories[k].article_count = 1
          /\ Len(digest.categories[k].articles[1].key_takeaways) = 4
          /\ Len(digest.categories[k].top_takeaways) = 3
          /\ HasSummary(digest.categories[k].articles[1])
    /\ \E k \in DOMAIN digest.categories :
          /\ digest.categories[k].article_count = 1
          /\ digest.categories[k].articles[1].summary = Some(<<>>)
          /\ digest.categories[k].synthesis = Placeholder(digest.categories[k].articles[1])

\* The category call for digest d failed: it raised, or what it returned
\* violates the schema
CallFailedFor(d) ==
    \E c \in CategoryCallsFor(d) : c.parsed = None \/ ~valid_category(c.parsed[1])

\* The texts the client returned in a category call for digest d
ReturnedTexts(d) ==
    UNION { Range(c.parsed[1].top_takeaways) \cup
            (IF c.parsed[1].synthesis = None THEN {} ELSE {c.parsed[1].synthesis[1]}) :
            c \in {c \in CategoryCallsFor(d) : c.parsed # None} }

\* The first takeaway of each of the first three articles that has one, in order
FirstTakeaways(arts) ==
    LET first_three == SubSeq(arts, 1, Min(3, Len(arts)))
        with_takeaways == SelectSeq(first_three, LAMBDA a : a.key_takeaways # <<>>)
    IN  [i \in DOMAIN with_takeaways |-> with_takeaways[i].key_takeaways[1]]

\* C12: when the call for a category of several articles fails (it raises or
\* its output violates the schema), the category's digest has the fallback
\* synthesis naming the category and its article count, its top_takeaways are
\* the first takeaways of the first three articles that have one (at most 3,
\* none a text the client returned), and it has no insight.
C12_Fallback ==
    Done =>
        \A k \in DOMAIN digest.categories :
            LET d == digest.categories[k] IN
            (d.article_count > 1 /\ CallFailedFor(d)) =>
                /\ d.synthesis = fallback_synthesis(d.name, d.articles)
                /\ d.top_takeaways = FirstTakeaways(d.articles)
                /\ Len(d.top_takeaways) <= 3
                /\ Range(d.top_takeaways) \cap ReturnedTexts(d) = {}
                /\ d.synthesis \notin ReturnedTexts(d)
                /\ d.non_obvious_insight = None

C12_Witness ==
    /\ Done
    /\ \E k \in DOMAIN digest.categories :
          LET d == digest.categories[k] IN
          /\ d.article_count = 4
          /\ \A j \in DOMAIN d.articles : d.articles[j].key_takeaways # <<>>
          /\ \E c \in CategoryCallsFor(d) :
                /\ c.parsed # None
                /\ ~valid_category(c.parsed[1])
                /\ c.parsed[1].top_takeaways # <<>>
          /\ Len(d.top_takeaways) = 3

\* The overall response breaks the schema: a candidate's confidence is not in 1..5
OverallSchemaViolated(parsed) ==
    \E i \in DOMAIN parsed.cross_category_insights :
        parsed.cross_category_insights[i].confidence \notin 1..5

\* The overall call failed: it raised, or what it returned violates the schema
OverallCallFailed ==
    \E c \in Calls("overall") : c.parsed = None \/ OverallSchemaViolated(c.parsed[1])

\* C13: when the overall synthesis call fails (raises, or returns output that
\* violates the schema), the digest is still returned, with empty overall_themes,
\* must_read and non_obvious_insights, and with every category digest built,
\* total_articles and total_feeds as without the failure.
C13_OverallFailure ==
    (pc \in {"done", "raised"} /\ OverallCallFailed) =>
        /\ Done
        /\ ret # None
        /\ digest.overall_themes = <<>>
        /\ digest.must_read = <<>>
        /\ digest.non_obvious_insights = <<>>
        /\ digest.categories = category_digests
        /\ Len(digest.categories) = Cardinality({articles[i].category : i \in DOMAIN articles})
        /\ digest.total_articles = Len(articles)
        /\ digest.total_feeds = Cardinality({articles[i].feed_url : i \in DOMAIN articles})

C13_Witness ==
    /\ Done
    /\ \E c \in Calls("overall") :
          /\ c.parsed # None
          /\ OverallSchemaViolated(c.parsed[1])
          /\ c.parsed[1].overall_themes # <<>>
          /\ c.parsed[1].must_read_overall # <<>>
    /\ Len(digest.categories) = 2
    /\ digest.total_feeds = 2
    /\ digest.overall_themes = <<>>

\* The category names of the built digest, in the digest's order
CategoryNames == [k \in DOMAIN digest.categories |-> digest.categories[k].name]

\* The input reordered by the permutation p of its positions
Reordered(p) == [i \in DOMAIN articles |-> articles[p[i]]]

\* The category names in the order build_digest goes through them
GroupedNames == [k \in DOMAIN by_category |-> by_category[k][1]]

\* The grouping has been made and no category digest built yet
Grouped == pc = "categories" /\ category_digests = <<>>

\* C14: the categories of a built digest are in strictly increasing order of
\* name (str comparison, by code point), each category of the input once,
\* whatever the order of the input articles; every reordering of the input
\* is grouped into the same sequence of category names, which is the digest's.
C14_Sorted ==
    /\ Done =>
          /\ \A k \in 1..(Len(CategoryNames) - 1) :
                str_less(CategoryNames[k], CategoryNames[k + 1])
          /\ Range(CategoryNames) = {articles[i].category : i \in DOMAIN articles}
          /\ CategoryNames = GroupedNames
    /\ Grouped =>
          \A p \in Permutations(DOMAIN articles) :
              LET other == sorted_by_category(Reordered(p))
              IN  [k \in DOMAIN other |-> other[k][1]] = GroupedNames

C14_Witness ==
    /\ Done
    /\ Len(articles) = 3
    /\ articles[1].category = <<"a", "i">>
    /\ articles[2].category = <<"T">>
    /\ articles[3].category = <<"B">>
    /\ CategoryNames = << <<"B">>, <<"T">>, <<"a", "i">> >>

RECURSIVE FirstPassing(_, _, _, _)
\* The first n candidates that pass the gate, in the order listed, each gated
\* against the context and the texts of those kept before it
FirstPassing(candidates, allowed, context, n) ==
    IF n = 0 \/ candidates = <<>> THEN <<>>
    ELSE LET passed == _approve_insight(Some(Head(candidates)), allowed, context) IN
         IF passed = None
         THEN FirstPassing(Tail(candidates), allowed, context, n)
         ELSE <<passed[1]>> \o FirstPassing(Tail(candidates), allowed,
                                            Append(context, passed[1].insight), n - 1)

\* C15 as stated: the cross-category insights kept are exactly the first
\* max_insights_per_digest candidates that pass the gate, in the order the
\* client listed them, and no candidate is added once the cap is reached.
C15_FirstPassing ==
    Done =>
        \A c \in ValidOverallCalls :
            digest.non_obvious_insights =
                FirstPassing(c.parsed[1].cross_category_insights,
                             allowed_urls_of(articles), c.parsed[1].overall_themes,
                             max_insights_per_digest)

\* generate() has ended: it returned or it raised
Ended == pc \in {"returned", "raised"}

\* The inner call failed with an LLMError worth retrying
RetryableFailure(c) ==
    c.raised # None /\ isinstance_LLMError(c.raised[1]) /\ _is_retryable(c.raised[1])

\* The inner call failed with an LLMError not worth retrying
NonRetryableFailure(c) ==
    c.raised # None /\ isinstance_LLMError(c.raised[1]) /\ ~_is_retryable(c.raised[1])

\* C17: generate calls the inner client at most max_retries + 1 times; when
\* every attempt fails with a retryable error, it raises the last attempt's
\* LLMError after exactly max_retries + 1 inner calls; with max_retries = 0 it
\* makes exactly one call and never sleeps.
C17_AtMostRetries ==
    /\ Len(inner_calls) <= max_retries + 1
    /\ (Ended /\ \A k \in DOMAIN inner_calls : RetryableFailure(inner_calls[k])) =>
          /\ pc = "raised"
          /\ Len(inner_calls) = max_retries + 1
          /\ raised = inner_calls[Len(inner_calls)].raised
          /\ Len(slept) = max_retries
    /\ (Ended /\ max_retries = 0) => (Len(inner_calls) = 1 /\ slept = <<>>)

C17_Witness ==
    /\ pc = "raised"
    /\ max_retries = 2
    /\ Len(inner_calls) = 3
    /\ \A k \in DOMAIN inner_calls : RetryableFailure(inner_calls[k])
    /\ raised = Some(Exc("LLMError", TimedOut))
    /\ inner_calls[1].raised # raised

\* C18: when the inner client fails with an LLMError that is not retryable,
\* generate raises that error at once and calls the inner client no more; when
\* it is the first call that so fails, the inner client was called exactly
\* once, however many retries remain.
C18_NonRetryable ==
    \A k \in DOMAIN inner_calls :
        NonRetryableFailure(inner_calls[k]) =>
            /\ k = Len(inner_calls)
            /\ pc = "raised"
            /\ raised = inner_calls[k].raised
            /\ Len(slept) = k - 1

C18_Witness ==
    /\ pc = "raised"
    /\ max_retries = 2
    /\ inner_calls = <<inner_call(None, Some(Exc("LLMError", Unauthorized)))>>
    /\ raised = Some(Exc("LLMError", Unauthorized))

\* C19: generate returns the inner client's first successful response, unchanged,
\* and calls the inner client no more; as long as no more than max_retries
\* retryable failures have come, and nothing else, generate goes on to another
\* attempt, so when k <= max_retries retryable failures precede the first
\* success the inner client is called exactly k + 1 times.
C19_FirstSuccess ==
    /\ \A k \in DOMAIN inner_calls :
          inner_calls[k].returned # None =>
              /\ k = Len(inner_calls)
              /\ pc = "returned"
              /\ ret = inner_calls[k].returned
              /\ \A j \in 1..(k - 1) : RetryableFailure(inner_calls[j])
              /\ k - 1 <= max_retries
    /\ pc = "returned" => (inner_calls # <<>> /\ inner_calls[Len(inner_calls)].returned # None)
    /\ (/\ Len(inner_calls) <= max_retries
        /\ \A k \in DOMAIN inner_calls : RetryableFailure(inner_calls[k]))
          => (pc = "generate" /\ attempt = Len(inner_calls) /\ ret = None)

C19_Witness ==
    /\ pc = "returned"
    /\ max_retries = 2
    /\ Len(inner_calls) = 3
    /\ ret = Some(OK_RESPONSE)

\* C20 as stated: the top_takeaways of every category digest of a built digest
\* hold no takeaway text twice.
C20_Deduplicated ==
    Done =>
        \A k \in DOMAIN digest.categories : Distinct(digest.categories[k].top_takeaways)

\* C21: in a built digest total_articles is the number of input articles, which
\* is the sum of article_count over the category digests, and total_feeds is
\* the number of distinct feed URLs among the input articles.
C21_Totals ==
    Done =>
        /\ digest.total_articles = Len(articles)
        /\ digest.total_articles =
              Sum([k \in DOMAIN digest.categories |-> digest.categories[k].article_count])
        /\ digest.total_feeds = Cardinality({articles[i].feed_url : i \in DOMAIN articles})

C21_Witness ==
    /\ Done
    /\ Len(articles) = 3
    /\ Len(digest.categories) = 2
    /\ digest.total_articles = 3
    /\ digest.total_feeds = 2
    /\ \E i, j \in DOMAIN articles : i # j /\ articles[i].feed_url = articles[j].feed_url

\* The text is empty or holds whitespace only
BlankText(text) == \A i \in DOMAIN text : text[i] \in Whitespace

\* The text is not empty and neither starts nor ends with whitespace
TrimmedText(text) ==
    /\ text # <<>>
    /\ text[1] \notin Whitespace
    /\ text[Len(text)] \notin Whitespace

\* text without the whitespace around it is inner
TrimOf(text, inner) ==
    \E i \in 0..Len(text) :
        /\ Len(inner) + i <= Len(text)
        /\ SubSeq(text, i + 1, i + Len(inner)) = inner
        /\ BlankText(SubSeq(text, 1, i))
        /\ BlankText(SubSeq(text, i + Len(inner) + 1, Len(text)))

\* C22: in every mode the gate rejects a candidate whose insight text or whose
\* justification is empty or whitespace-only; the texts of an approved insight
\* are non-empty and trimmed, and are the candidate's texts without the
\* whitespace around them.
C22_NonEmptyTexts ==
    (Applied("_approve_insight") /\ gate[1].insight # None) =>
        LET candidate == gate[1].insight[1] IN
        /\ (BlankText(candidate.insight) \/ BlankText(candidate.why_unintuitive))
              => gate[1].result = None
        /\ gate[1].result # None =>
              /\ TrimmedText(gate[1].result[1].insight)
              /\ TrimmedText(gate[1].result[1].why_unintuitive)
              /\ TrimOf(candidate.insight, gate[1].result[1].insight)
              /\ TrimOf(candidate.why_unintuitive, gate[1].result[1].why_unintuitive)

C22_Witness ==
    /\ Applied("_approve_insight")
    /\ insights_mode = "always"
    /\ gate[1].insight # None
    /\ gate[1].insight[1].why_unintuitive = Blank
    /\ gate[1].result = None
    /\ _approve_insight(Some([gate[1].insight[1] EXCEPT !.why_unintuitive = Why]),
                        gate[1].allowed_urls, gate[1].existing_texts) # None

\* url is core with whitespace around it and slashes between core and the
\* whitespace that follows
PaddedForm(url, core) ==
    \E a \in 0..Len(url) :
        /\ a + Len(core) <= Len(url)
        /\ SubSeq(url, a + 1, a + Len(core)) = core
        /\ BlankText(SubSeq(url, 1, a))
        /\ \E m \in (a + Len(core))..Len(url) :
              /\ \A x \in (a + Len(core) + 1)..m : url[x] = "/"
              /\ BlankText(SubSeq(url, m + 1, Len(url)))

\* The first place of the list that holds a form of core
FirstForm(urls, core) ==
    CHOOSE i \in DOMAIN urls :
        /\ PaddedForm(urls[i], core)
        /\ \A j \in 1..(i - 1) : ~PaddedForm(urls[j], core)

\* C23: the supporting_urls of an approved insight are the allowed URLs that a
\* supporting URL of the candidate is a form of (whitespace around it, slashes
\* at its end), each once, in the order of their first forms in the candidate;
\* candidate URLs that differ only so yield one entry.
C23_SupportingUrls ==
    (Applied("_approve_insight") /\ gate[1].insight # None /\ gate[1].result # None) =>
        LET urls == gate[1].insight[1].supporting_urls
            kept == gate[1].result[1].supporting_urls
        IN  /\ Distinct(kept)
            /\ Range(kept) = {core \in gate[1].allowed_urls :
                                 \E i \in DOMAIN urls : PaddedForm(urls[i], core)}
            /\ \A i, j \in DOMAIN kept :
                  i < j => FirstForm(urls, kept[i]) < FirstForm(urls, kept[j])

C23_Witness ==
    /\ Applied("_approve_insight")
    /\ gate[1].insight # None
    /\ Len(gate[1].insight[1].supporting_urls) = 5
    /\ gate[1].result # None
    /\ gate[1].result[1].supporting_urls = << <<"u", "2">>, <<"u", "1">> >>

\* The texts of the cross-category insights of the digest before place i
EarlierInsightTexts(i) ==
    [j \in 1..(i - 1) |-> digest.non_obvious_insights[j].insight]

\* C24: no cross-category insight of a built digest is a near-duplicate (equal
\* after lowercasing and collapsing whitespace, or sharing 80% of the smaller
\* token set) of an overall theme or of an insight approved before it, so no
\* two of them are near-duplicates of each other.
C24_BatchContext ==
    Done =>
        \A i \in DOMAIN digest.non_obvious_insights :
            /\ ~NearDuplicateOfSome(digest.non_obvious_insights[i].insight,
                                    digest.overall_themes \o EarlierInsightTexts(i))
            /\ \A j \in 1..(i - 1) :
                  ~NearDuplicateOfSome(digest.non_obvious_insights[j].insight,
                                       <<digest.non_obvious_insights[i].insight>>)

C24_Witness ==
    /\ Done
    /\ max_insights_per_digest = 2
    /\ Len(digest.non_obvious_insights) = 1
    /\ \E c \in ValidOverallCalls :
          LET candidates == c.parsed[1].cross_category_insights IN
          /\ Len(candidates) = 2
          /\ \A k \in DOMAIN candidates :
                _approve_insight(Some(candidates[k]), allowed_urls_of(articles),
                                 c.parsed[1].overall_themes) # None
          /\ EqualNormalized(candidates[1].insight, candidates[2].insight)

\* The normalized URLs of the articles of the categories other than digest d's
UrlsOfOtherCategories(d) ==
    allowed_urls_of(SelectSeq(articles, LAMBDA a : a.category # d.name))

\* C25: an approved category insight cites normalized URLs of its own
\* category's articles only, none that belongs to another category's article,
\* and is no near-duplicate of a top_takeaway of its category; a candidate that
\* cites URLs of other categories only, or that is a near-duplicate of a
\* takeaway just returned, is dropped.
C25_CategoryScope ==
    Done =>
        \A k \in DOMAIN digest.categories :
            LET d == digest.categories[k] IN
            /\ \A n \in CategoryInsightsOf(d) :
                  /\ Range(n.supporting_urls) \subseteq allowed_urls_of(d.articles)
                  /\ Range(n.supporting_urls) \cap UrlsOfOtherCategories(d) = {}
                  /\ ~NearDuplicateOfSome(n.insight, d.top_takeaways)
            /\ \A c \in ValidCategoryCalls(d) :
                  c.parsed[1].non_obvious_insight # None =>
                      LET candidate == c.parsed[1].non_obvious_insight[1] IN
                      (\/ AllOutside(candidate, allowed_urls_of(d.articles))
                       \/ NearDuplicateOfSome(strip(candidate.insight),
                                              c.parsed[1].top_takeaways))
                          => d.non_obvious_insight = None

C25_Witness ==
    /\ Done
    /\ \E k \in DOMAIN digest.categories :
          LET d == digest.categories[k] IN
          /\ d.non_obvious_insight = None
          /\ \E c \in ValidCategoryCalls(d) :
                /\ c.parsed[1].non_obvious_insight # None
                /\ AllOutside(c.parsed[1].non_obvious_insight[1],
                              allowed_urls_of(d.articles))
                /\ _approve_insight(c.parsed[1].non_obvious_insight,
                                    allowed_urls_of(articles),
                                    c.parsed[1].top_takeaways) # None
    /\ \E k \in DOMAIN digest.categories :
          /\ \E n \in CategoryInsightsOf(digest.categories[k]) :
                Len(n.supporting_urls) = 1
          /\ \E c \in ValidCategoryCalls(digest.categories[k]) :
                /\ c.parsed[1].non_obvious_insight # None
                /\ Len(c.parsed[1].non_obvious_insight[1].supporting_urls) = 3

\* The allowed URLs that a URL of the list is a form of
Resolved(urls, allowed) ==
    {core \in allowed : \E i \in DOMAIN urls : PaddedForm(urls[i], core)}

\* C26: must_read holds the first three of the allowed URLs that the URLs of
\* the client's must_read_overall are forms of, each once, in the order of
\* their first forms in that list: the cap of 3 counts the URLs kept, not the
\* URLs read.
C26_MustReadOrder ==
    Done =>
        \A c \in ValidOverallCalls :
            LET urls == c.parsed[1].must_read_overall
                resolved == Resolved(urls, allowed_urls_of(articles))
            IN  /\ Distinct(digest.must_read)
                /\ Range(digest.must_read) \subseteq resolved
                /\ Len(digest.must_read) = Min(3, Cardinality(resolved))
                /\ \A i, j \in DOMAIN digest.must_read :
                      i < j => FirstForm(urls, digest.must_read[i])
                                  < FirstForm(urls, digest.must_read[j])
                /\ \A core \in resolved \ Range(digest.must_read) :
                      \A i \in DOMAIN digest.must_read :
                          FirstForm(urls, digest.must_read[i]) < FirstForm(urls, core)

C26_Witness ==
    /\ Done
    /\ digest.must_read = << <<"u", "1">>, <<"u", "2">>, <<"u", "3">> >>
    /\ \E c \in ValidOverallCalls :
          /\ Len(c.parsed[1].must_read_overall) = 6
          /\ Cardinality(Resolved(c.parsed[1].must_read_overall,
                                  allowed_urls_of(articles))) = 4
          /\ Cardinality(Resolved(SubSeq(c.parsed[1].must_read_overall, 1, 3),
                                  allowed_urls_of(articles))) = 2

\* C27: when the call for a category of several articles returns a valid
\* response and the gate drops its candidate insight, the category's synthesis
\* and top_takeaways are the ones the client returned, and the fallback
\* synthesis is not used.
C27_RejectionKeepsSynthesis ==
    Done =>
        \A k \in DOMAIN digest.categories :
            LET d == digest.categories[k] IN
            \A c \in ValidCategoryCalls(d) :
                (c.parsed[1].non_obvious_insight # None /\ d.non_obvious_insight = None) =>
                    /\ d.synthesis = c.parsed[1].synthesis[1]
                    /\ d.top_takeaways = c.parsed[1].top_takeaways
                    /\ d.synthesis # fallback_synthesis(d.name, d.articles)

C27_Witness ==
    /\ Done
    /\ insights_mode = "auto"
    /\ \E k \in DOMAIN digest.categories :
          LET d == digest.categories[k] IN
          /\ d.article_count = 2
          /\ d.non_obvious_insight = None
          /\ d.synthesis = Syn
          /\ d.top_takeaways = <<X1>>
          /\ \E c \in ValidCategoryCalls(d) :
                /\ c.parsed[1].non_obvious_insight # None
                /\ c.parsed[1].non_obvious_insight[1].confidence = 2

\* The places of the log that hold a call of the schema
PlacesOfCalls(schema) == {i \in DOMAIN llm_calls : llm_calls[i].schema = schema}

\* The number of articles of the input in the category
ArticlesIn(name) == Cardinality({i \in DOMAIN articles : articles[i].category = name})

\* C28: the calls of one build_digest run come one after the other in a fixed
\* order: the category calls in strictly increasing order of category name
\* (so at most one per category), only for categories of several articles, one
\* for each such category whose digest is built; at most one overall call,
\* after all the category calls and only when every category digest is built.
C28_CallOrder ==
    /\ \A i, j \in PlacesOfCalls("category") :
          i < j => str_less(llm_calls[i].name[1], llm_calls[j].name[1])
    /\ \A i \in PlacesOfCalls("category") : ArticlesIn(llm_calls[i].name[1]) > 1
    /\ \A k \in DOMAIN category_digests :
          Cardinality({i \in PlacesOfCalls("category") :
                          llm_calls[i].name[1] = category_digests[k].name})
              = IF category_digests[k].article_count > 1 THEN 1 ELSE 0
    /\ Cardinality(PlacesOfCalls("category")) <= Len(category_digests)
    /\ Cardinality(PlacesOfCalls("overall")) <= 1
    /\ \A i \in PlacesOfCalls("overall") :
          /\ i = Len(llm_calls)
          /\ pc # "start"
          /\ Len(category_digests) = Len(by_category)
          /\ Len(category_digests) =
                Cardinality({articles[a].category : a \in DOMAIN articles})
    /\ (Done /\ articles # <<>>) => Cardinality(PlacesOfCalls("overall")) = 1

C28_Witness ==
    /\ Done
    /\ Len(llm_calls) = 3
    /\ llm_calls[1].name = Some(<<"B">>)
    /\ llm_calls[2].name = Some(<<"T">>)
    /\ llm_calls[3].schema = "overall"
    /\ Len(digest.categories) = 3
    /\ articles[1].category = <<"a", "i">>

\* C29: when the response of the overall call violates the schema (a candidate
\* with a confidence outside 1..5), overall_themes, must_read and
\* non_obvious_insights of the digest are all empty: no theme, must-read URL
\* or valid candidate of that response reaches the digest.
C29_AllOrNothing ==
    Done =>
        \A c \in Calls("overall") :
            (c.parsed # None /\ OverallSchemaViolated(c.parsed[1])) =>
                /\ digest.overall_themes = <<>>
                /\ digest.must_read = <<>>
                /\ digest.non_obvious_insights = <<>>

C29_Witness ==
    /\ Done
    /\ insights_mode = "always"
    /\ \E c \in Calls("overall") :
          /\ c.parsed # None
          /\ OverallSchemaViolated(c.parsed[1])
          /\ c.parsed[1].overall_themes # <<>>
          /\ Resolved(c.parsed[1].must_read_overall, allowed_urls_of(articles)) # {}
          /\ \E i \in DOMAIN c.parsed[1].cross_category_insights :
                /\ c.parsed[1].cross_category_insights[i].confidence \in 1..5
                /\ _approve_insight(Some(c.parsed[1].cross_category_insights[i]),
                                    allowed_urls_of(articles),
                                    c.parsed[1].overall_themes) # None
    /\ digest.non_obvious_insights = <<>>

\* The input articles of the category, in input order
InputArticlesOf(name) == SelectSeq(articles, LAMBDA a : a.category = name)

\* The digest of the category as its own articles and its own call alone
\* determine it
OwnDigest(name, c) ==
    IF c.parsed # None /\ valid_category(c.parsed[1])
    THEN category_synthesized(name, InputArticlesOf(name), c.parsed[1])
    ELSE category_fallback(name, InputArticlesOf(name), <<>>)

\* C30: a failed category call touches its own category only: every category
\* digest of a built digest is the one its own articles and its own call
\* determine, whatever the other calls did; the failed category is in the list
\* with all its articles; the overall call is made, with every category digest
\* built.
C30_Isolation ==
    (Done /\ \E c \in Calls("category") : c.parsed = None \/ ~valid_category(c.parsed[1])) =>
        /\ Len(digest.categories) = Cardinality({articles[i].category : i \in DOMAIN articles})
        /\ \A k \in DOMAIN digest.categories :
              LET d == digest.categories[k] IN
              /\ d.articles = InputArticlesOf(d.name)
              /\ d.articles # <<>>
              /\ \A c \in CategoryCallsFor(d) : d = OwnDigest(d.name, c)
              /\ CategoryCallsFor(d) = {} => d = category_single(d.name, d.articles)
        /\ PlacesOfCalls("overall") = {Len(llm_calls)}
        /\ digest.categories = category_digests

C30_Witness ==
    /\ Done
    /\ Len(llm_calls) = 3
    /\ llm_calls[1].name = Some(<<"B">>)
    /\ llm_calls[1].parsed = None
    /\ llm_calls[2].parsed # None
    /\ valid_category(llm_calls[2].parsed[1])
    /\ Len(digest.categories) = 3
    /\ digest.categories[1].articles = InputArticlesOf(<<"B">>)
    /\ digest.categories[2].synthesis = Syn
    /\ digest.categories[2].non_obvious_insight # None
    /\ U3 \in Range(digest.must_read)

====
